---------------------------- MODULE Spec2Model ----------------------------
(***************************************************************************)
(* Restaurant / gaming-lounge POS backend: the session, billing, order,    *)
(* KOT and user handlers as a state machine over the relational store.     *)
(*                                                                         *)
(* Conventions of the model                                                *)
(*  - Money is an integer number of hundredths (a DECIMAL(10,2) column     *)
(*    holds exactly such a value).  A handler computes with the exact      *)
(*    rational n/d hundredths and the store keeps Decimal2(n, d).          *)
(*    IEEE-754 error of the JavaScript arithmetic is not modelled.         *)
(*  - Time is an integer number of ticks, TicksPerMinute ticks a minute;   *)
(*    `now` is what `new Date()` returns.                                  *)
(*  - Every handler is one atomic action (requests do not overlap) and     *)
(*    records its response in `last`; overlapping requests to the start,   *)
(*    session, payment, order-create and item-complete routes are modelled *)
(*    apart, one action per awaited call.                                  *)
(*  - The ORM calls (findByPk, create, update) do what their names say;    *)
(*    collisions of the random public ids are not modelled, and a storage  *)
(*    failure only where order creation is followed call by call.          *)
(***************************************************************************)
EXTENDS Integers, Sequences, FiniteSets, TLC

VARIABLES
  now,          \* the wall clock, in ticks
  opDefined,    \* whether the identifier Op resolves in sessions.js / billing
  tables,       \* [TableIds -> table row]
  sessions,     \* sequence of session rows; the primary key is the index
  orders,       \* sequence of order rows; the primary key is the index
  orderItems,   \* sequence of order item rows; the primary key is the index
  users,        \* sequence of user rows; the primary key is the index
  reservations, \* sequence of reservation rows; the primary key is the index
  starts,       \* the start-session requests in flight, by request
  inflight,     \* the other requests in flight, by request
  last          \* the last request and its response

vars == <<now, opDefined, tables, sessions, orders, orderItems, users,
          reservations, starts, inflight, last>>

-----------------------------------------------------------------------------
(* Bounds of the model *)

MaxClock == 2
MaxSessions == 2
MaxBilledSessions == 1
MaxOrders == 2
MaxUsers == 2
MaxExtensions == 1
MaxReservations == 2
MaxRequests == 3

-----------------------------------------------------------------------------
(* Values *)

\* SQL NULL in an integer or date column
Null == -1

\* SQL NULL in a string or enum column
NullStr == "null"

\* One minute of (endTime - start_time) / (1000 * 60), in ticks
TicksPerMinute == 2

\* The seeded tables
TableIds == {1, 2}

\* A table id no row has (findByPk returns null)
MissingId == 0

TableStatuses == {"available", "occupied", "reserved", "maintenance"}

\* The customers a request may name (non-empty strings, as validated)
Customers == {[name |-> "ann", phone |-> "555"]}

PaymentMethods == {"cash", "card"}

\* type of the seeded tables
TableTypeOf(t) == IF t = 1 THEN "Snooker" ELSE "Pool"

\* hourly_rate of the seeded tables, in hundredths per hour
HourlyRateOf(t) == 1000 + 250 * (t - 1)

\* plug_id of the seeded tables: only table 1 has a smart plug mapped
HasPlug(t) == t = 1

-----------------------------------------------------------------------------
(* Arithmetic *)

\* Math.ceil(a / b) for a >= 0, b > 0
CeilDiv(a, b) == (a + b - 1) \div b

\* The exact value n/d (hundredths, n >= 0, d > 0) as a DECIMAL(10,2) column
\* stores it: rounded half up to a whole number of hundredths
Decimal2(n, d) == (2 * n + d) \div (2 * d)

\* Math.max(a, b)
Max(a, b) == IF a >= b THEN a ELSE b

RECURSIVE SumOver(_, _)
\* orders.reduce((sum, order) => sum + parseFloat(order.total), 0) over the
\* rows whose keys are in S, with f the column read
SumOver(S, f) ==
  IF S = {} THEN 0
  ELSE LET i == CHOOSE x \in S : TRUE IN f[i] + SumOver(S \ {i}, f)

-----------------------------------------------------------------------------
(* Rows *)

\* Table.create defaults for a seeded table
NewTable(t) ==
  [type |-> TableTypeOf(t),
   status |-> "available",
   is_active |-> TRUE,
   hourly_rate |-> HourlyRateOf(t),
   plug_id |-> HasPlug(t),
   plug_status |-> "offline",
   current_session_id |-> Null,
   session_start_time |-> Null,
   session_end_time |-> Null,
   customer_name |-> NullStr,
   customer_phone |-> NullStr]

\* Session.create({table_id, customer_name, customer_phone, hourly_rate}) with
\* the column defaults of the Session model
NewSession(t, c) ==
  [table_id |-> t,
   customer_name |-> c.name,
   customer_phone |-> c.phone,
   start_time |-> now,
   end_time |-> Null,
   duration |-> 0,
   hourly_rate |-> tables[t].hourly_rate,
   session_cost |-> 0,
   total_order_cost |-> 0,
   subtotal |-> 0,
   tax |-> 0,
   service_fee |-> 0,
   discount |-> 0,
   total |-> 0,
   payment_status |-> "unpaid",
   payment_method |-> NullStr,
   extensions |-> <<>>,
   status |-> "active"]

\* The overlapping start-session requests
StartRequests == {1, 2}

\* A start-session request that has not arrived: pc is the await the handler
\* is suspended at, table and customer the request body, sid the session the
\* request created, code the HTTP status it was answered with
IdleStart ==
  [pc |-> "idle", table |-> Null, customer |-> [name |-> NullStr, phone |-> NullStr],
   sid |-> Null, code |-> 0]

\* The requests in flight other than start-session
ReqIds == 1..MaxRequests

\* A request that has not arrived: op is the route, pc the await the handler
\* is suspended at, id the row the request names or created, snap the rows
\* the handler holds in memory, k how many of them its loop has dealt with,
\* at the instant it took from new Date(), code the HTTP status it was
\* answered with
IdleRequest ==
  [op |-> "none", pc |-> "idle", id |-> Null, snap |-> <<>>, k |-> 0, at |-> Null,
   code |-> 0]

\* The response of a handler: operation, HTTP status, the reason, the table
\* and the row (session, order, order item, user) the request was about, and
\* the status that row had when the request arrived
Response(op, code, why, tid, id, pre) ==
  [op |-> op, code |-> code, why |-> why, tid |-> tid, id |-> id, pre |-> pre]

-----------------------------------------------------------------------------
(* Time *)

\* Wall-clock time passes
Tick ==
  /\ now < MaxClock
  /\ now' = now + 1
  /\ UNCHANGED <<opDefined, tables, sessions, orders, orderItems, users,
                 reservations, starts, inflight, last>>

-----------------------------------------------------------------------------
(* Sessions: routes/sessions.js *)

\* A start that skips tables under maintenance only
TableAvailableM1(row) == row.status # "maintenance"

\* table.status === 'available', the availability check of start-session
TableAvailable(row) == row.status = "available"

\* POST /sessions/start
StartSession(t, c, valid) ==
  /\ IF ~valid THEN
       /\ last' = Response("start", 400, "validation", t, Null, NullStr)
       /\ UNCHANGED <<tables, sessions>>
     ELSE IF t \notin TableIds THEN
       /\ last' = Response("start", 404, "not_found", t, Null, NullStr)
       /\ UNCHANGED <<tables, sessions>>
     ELSE IF ~TableAvailable(tables[t]) THEN
       /\ last' = Response("start", 400, "not_available", t, Null, tables[t].status)
       /\ UNCHANGED <<tables, sessions>>
     ELSE
       LET sid == Len(sessions) + 1 IN
       /\ Len(sessions) < MaxSessions
       /\ sessions' = Append(sessions, NewSession(t, c))
       /\ tables' = [tables EXCEPT ![t] =
            [@ EXCEPT !.status = "occupied",
                      !.current_session_id = sid,
                      !.session_start_time = now,
                      !.customer_name = c.name,
                      !.customer_phone = c.phone,
                      !.plug_status = IF tables[t].plug_id THEN "online" ELSE @]]
       /\ last' = Response("start", 201, "ok", t, sid, "available")
  /\ UNCHANGED <<reservations, starts, inflight, now, opDefined, orders, orderItems, users>>

\* POST /sessions/start, one action per awaited call.  Each request keeps the
\* Table instance it loaded; hourly_rate and plug_id of a table row are never
\* written, so the instance's copy of them equals the row.

\* await Table.findByPk(table_id) and the checks that follow it
StartFindTable(r, t, c, valid) ==
  /\ starts[r].pc = "idle"
  /\ IF ~valid THEN
       /\ starts' = [starts EXCEPT ![r] = [@ EXCEPT !.pc = "done", !.table = t, !.code = 400]]
       /\ last' = Response("start", 400, "validation", t, Null, NullStr)
     ELSE IF t \notin TableIds THEN
       /\ starts' = [starts EXCEPT ![r] = [@ EXCEPT !.pc = "done", !.table = t, !.code = 404]]
       /\ last' = Response("start", 404, "not_found", t, Null, NullStr)
     ELSE IF ~TableAvailable(tables[t]) THEN
       /\ starts' = [starts EXCEPT ![r] = [@ EXCEPT !.pc = "done", !.table = t, !.code = 400]]
       /\ last' = Response("start", 400, "not_available", t, Null, tables[t].status)
     ELSE
       /\ starts' = [starts EXCEPT ![r] =
            [@ EXCEPT !.pc = "create", !.table = t, !.customer = c]]
       /\ UNCHANGED last
  /\ UNCHANGED <<tables, sessions, reservations, inflight, now, opDefined, orders, orderItems, users>>

\* await Session.create({...})
StartCreateSession(r) ==
  /\ starts[r].pc = "create"
  /\ Len(sessions) < MaxSessions
  /\ sessions' = Append(sessions, NewSession(starts[r].table, starts[r].customer))
  /\ starts' = [starts EXCEPT ![r] = [@ EXCEPT !.pc = "update", !.sid = Len(sessions) + 1]]
  /\ UNCHANGED <<tables, last, reservations, inflight, now, opDefined, orders, orderItems, users>>

\* A table update that writes only while the row is still available
OccupyTableM1(row, sid, c) ==
  IF row.status = "available"
  THEN [row EXCEPT !.status = "occupied",
                   !.current_session_id = sid,
                   !.session_start_time = sessions[sid].start_time,
                   !.customer_name = c.name,
                   !.customer_phone = c.phone]
  ELSE row

\* table.update({status: 'occupied', current_session_id: session.id, ...}):
\* the row after the write, whatever the row holds when the write arrives
OccupyTable(row, sid, c) ==
  [row EXCEPT !.status = "occupied",
              !.current_session_id = sid,
              !.session_start_time = sessions[sid].start_time,
              !.customer_name = c.name,
              !.customer_phone = c.phone]

\* await table.update({status: 'occupied', ...})
StartUpdateTable(r) ==
  LET t == starts[r].table IN
  /\ starts[r].pc = "update"
  /\ tables' = [tables EXCEPT ![t] = OccupyTable(@, starts[r].sid, starts[r].customer)]
  /\ starts' = [starts EXCEPT ![r].pc = IF tables[t].plug_id THEN "plug" ELSE "respond"]
  /\ UNCHANGED <<sessions, last, reservations, inflight, now, opDefined, orders, orderItems, users>>

\* if (table.plug_id) await table.update({plug_status: 'online'})
StartPlugOnline(r) ==
  /\ starts[r].pc = "plug"
  /\ tables' = [tables EXCEPT ![starts[r].table].plug_status = "online"]
  /\ starts' = [starts EXCEPT ![r].pc = "respond"]
  /\ UNCHANGED <<sessions, last, reservations, inflight, now, opDefined, orders, orderItems, users>>

\* await Session.findByPk(session.id) and res.status(201)
StartRespond(r) ==
  /\ starts[r].pc = "respond"
  /\ starts' = [starts EXCEPT ![r] = [@ EXCEPT !.pc = "done", !.code = 201]]
  /\ last' = Response("start", 201, "ok", starts[r].table, starts[r].sid, "available")
  /\ UNCHANGED <<tables, sessions, reservations, inflight, now, opDefined, orders, orderItems, users>>

\* Session.findByPk(id): whether the row exists
SessionExists(sid) == sid \in 1..Len(sessions)

\* The keys of the orders of Order.findAll / Order.update
\*   where: { table_id, created_at: { [Op.gte]: from, [Op.lte]: to } }
OrdersInWindow(t, from, to) ==
  {i \in 1..Len(orders) :
     /\ orders[i].table_id = t
     /\ orders[i].created_at >= from
     /\ orders[i].created_at <= to}

\* duration = Math.ceil((endTime - session.start_time) / (1000 * 60))
DurationAt(s, endTime) == CeilDiv(endTime - s.start_time, TicksPerMinute)

\* The bill the End handler computes for session row s at endTime; the exact
\* subtotal is n/60 hundredths with n = duration * hourly_rate + 60 * orders
EndBill(s, endTime) ==
  LET duration == DurationAt(s, endTime)
      totalOrderCost ==
        SumOver(OrdersInWindow(s.table_id, s.start_time, endTime),
                [i \in 1..Len(orders) |-> orders[i].total])
      n == duration * s.hourly_rate + 60 * totalOrderCost
  IN [end_time |-> endTime,
      duration |-> duration,
      session_cost |-> Decimal2(duration * s.hourly_rate, 60),
      total_order_cost |-> totalOrderCost,
      subtotal |-> Decimal2(n, 60),
      tax |-> Decimal2(n * 85, 60 * 1000),
      service_fee |-> Decimal2(n * 5, 60 * 100),
      total |-> Decimal2(n * 1135, 60 * 1000)]

\* A reset that frees the table but keeps its session pointer and customer
ResetTableM1(row, endTime) ==
  [row EXCEPT !.status = "available",
              !.session_end_time = endTime,
              !.plug_status = "offline"]

\* session.table.update({status: 'available', current_session_id: null, ...})
ResetTable(row, endTime) ==
  [row EXCEPT !.status = "available",
              !.current_session_id = Null,
              !.session_start_time = Null,
              !.session_end_time = endTime,
              !.customer_name = NullStr,
              !.customer_phone = NullStr,
              !.plug_status = "offline"]

\* POST /sessions/:id/end
EndSession(sid) ==
  /\ IF ~SessionExists(sid) THEN
       /\ last' = Response("end", 404, "not_found", Null, sid, NullStr)
       /\ UNCHANGED <<tables, sessions>>
     ELSE IF sessions[sid].status # "active" THEN
       /\ last' = Response("end", 400, "not_active", sessions[sid].table_id, sid,
                           sessions[sid].status)
       /\ UNCHANGED <<tables, sessions>>
     ELSE IF ~opDefined THEN
       \* Op.gte: ReferenceError, caught by the handler's catch
       /\ last' = Response("end", 500, "reference_error", sessions[sid].table_id, sid,
                           "active")
       /\ UNCHANGED <<tables, sessions>>
     ELSE
       LET s == sessions[sid]
           b == EndBill(s, now)
       IN
       /\ sessions' = [sessions EXCEPT ![sid] =
            [@ EXCEPT !.end_time = b.end_time,
                      !.duration = b.duration,
                      !.session_cost = b.session_cost,
                      !.total_order_cost = b.total_order_cost,
                      !.subtotal = b.subtotal,
                      !.tax = b.tax,
                      !.service_fee = b.service_fee,
                      !.total = b.total,
                      !.status = "completed"]]
       /\ tables' = [tables EXCEPT ![s.table_id] = ResetTable(@, now)]
       /\ last' = Response("end", 200, "ok", s.table_id, sid, "active")
  /\ UNCHANGED <<reservations, starts, inflight, now, opDefined, orders, orderItems, users>>

\* POST /sessions/:id/extend; the request gives no reason
ExtendSession(sid, minutes, valid) ==
  /\ IF ~valid THEN
       /\ last' = Response("extend", 400, "validation", Null, sid, NullStr)
       /\ UNCHANGED sessions
     ELSE IF ~SessionExists(sid) THEN
       /\ last' = Response("extend", 404, "not_found", Null, sid, NullStr)
       /\ UNCHANGED sessions
     ELSE IF sessions[sid].status # "active" THEN
       /\ last' = Response("extend", 400, "not_active", sessions[sid].table_id, sid,
                           sessions[sid].status)
       /\ UNCHANGED sessions
     ELSE
       /\ Len(sessions[sid].extensions) < MaxExtensions
       /\ sessions' = [sessions EXCEPT ![sid].extensions =
            Append(@, [extendedBy |-> minutes,
                       extendedAt |-> now,
                       reason |-> "Manual extension"])]
       /\ last' = Response("extend", 200, "ok", sessions[sid].table_id, sid, "active")
  /\ UNCHANGED <<reservations, starts, inflight, now, opDefined, tables, orders, orderItems, users>>

\* A pause that refuses completed sessions only
PauseAllowedM1(s) == s.status # "completed"

\* session.status !== 'active', the status check of pause
PauseAllowed(s) == s.status = "active"

\* POST /sessions/:id/pause
PauseSession(sid) ==
  /\ IF ~SessionExists(sid) THEN
       /\ last' = Response("pause", 404, "not_found", Null, sid, NullStr)
       /\ UNCHANGED sessions
     ELSE IF ~PauseAllowed(sessions[sid]) THEN
       /\ last' = Response("pause", 400, "not_active", sessions[sid].table_id, sid,
                           sessions[sid].status)
       /\ UNCHANGED sessions
     ELSE
       /\ sessions' = [sessions EXCEPT ![sid].status = "paused"]
       /\ last' = Response("pause", 200, "ok", sessions[sid].table_id, sid, "active")
  /\ UNCHANGED <<reservations, starts, inflight, now, opDefined, tables, orders, orderItems, users>>

\* POST /sessions/:id/resume
ResumeSession(sid) ==
  /\ IF ~SessionExists(sid) THEN
       /\ last' = Response("resume", 404, "not_found", Null, sid, NullStr)
       /\ UNCHANGED sessions
     ELSE IF sessions[sid].status # "paused" THEN
       /\ last' = Response("resume", 400, "not_paused", sessions[sid].table_id, sid,
                           sessions[sid].status)
       /\ UNCHANGED sessions
     ELSE
       /\ sessions' = [sessions EXCEPT ![sid].status = "active"]
       /\ last' = Response("resume", 200, "ok", sessions[sid].table_id, sid, "paused")
  /\ UNCHANGED <<reservations, starts, inflight, now, opDefined, tables, orders, orderItems, users>>

-----------------------------------------------------------------------------
(* Tables: routes/tables.js *)

\* PATCH /tables/:id/status
UpdateTableStatus(t, status) ==
  /\ IF status \notin TableStatuses THEN
       /\ last' = Response("table_status", 400, "validation", t, Null, NullStr)
       /\ UNCHANGED tables
     ELSE IF t \notin TableIds THEN
       /\ last' = Response("table_status", 404, "not_found", t, Null, NullStr)
       /\ UNCHANGED tables
     ELSE
       /\ tables' = [tables EXCEPT ![t].status = status]
       /\ last' = Response("table_status", 200, "ok", t, Null, tables[t].status)
  /\ UNCHANGED <<reservations, starts, inflight, now, opDefined, sessions, orders, orderItems, users>>

-----------------------------------------------------------------------------
(* Orders: the order routes (routes/auth.js, second module of the file) *)

\* The seeded menu: price in hundredths and the is_available flag
MenuItems ==
  [m \in 1..3 |->
     [price |-> IF m = 1 THEN 250 ELSE 399,
      is_available |-> m # 3]]

\* A menu item id no row has (MenuItem.findByPk returns null)
MissingMenuId == 9

\* One requested line of an order
Line(m, q) == [menu_item_id |-> m, quantity |-> q]

\* The item lists a create-order request may carry (at least one line,
\* quantity >= 1, as validated)
OrderRequests ==
  {<<Line(1, 1)>>,
   <<Line(2, 1), Line(1, 2)>>,
   <<Line(3, 1)>>,
   <<Line(1, 1), Line(3, 1)>>,
   <<Line(2, 2), Line(MissingMenuId, 1)>>}

\* The item lists of the orders placed during a billed session
BillingOrderRequests == {<<Line(1, 1)>>}

\* A line check that forgets the is_available flag
LineAvailableM1(line) == line.menu_item_id \in DOMAIN MenuItems

\* MenuItem.findByPk(id) && menuItem.is_available
LineAvailable(line) ==
  /\ line.menu_item_id \in DOMAIN MenuItems
  /\ MenuItems[line.menu_item_id].is_available

\* The checking loop of create-order passes every line
AllLinesAvailable(items) == \A k \in 1..Len(items) : LineAvailable(items[k])

RECURSIVE LinesSubtotal(_)
\* subtotal += menuItem.price * item.quantity, over the requested lines
LinesSubtotal(items) ==
  IF items = <<>> THEN 0
  ELSE MenuItems[Head(items).menu_item_id].price * Head(items).quantity
       + LinesSubtotal(Tail(items))

\* An order whose total leaves the tax out
NewOrderM1(t, subtotal) ==
  [table_id |-> t,
   created_at |-> now,
   status |-> "pending",
   subtotal |-> subtotal,
   tax |-> Decimal2(subtotal * 85, 1000),
   discount |-> 0,
   total |-> subtotal,
   payment_status |-> "unpaid",
   kot_printed |-> FALSE,
   kot_printed_at |-> Null]

\* Order.create({table_id, subtotal, tax, total, ...}) with the column defaults
NewOrder(t, subtotal) ==
  [table_id |-> t,
   created_at |-> now,
   status |-> "pending",
   subtotal |-> subtotal,
   tax |-> Decimal2(subtotal * 85, 1000),
   discount |-> 0,
   total |-> Decimal2(subtotal * 1085, 1000),
   payment_status |-> "unpaid",
   kot_printed |-> FALSE,
   kot_printed_at |-> Null]

\* OrderItem.create({order_id, ...item}) for every requested line, in order
NewOrderItems(oid, items) ==
  [k \in 1..Len(items) |->
     [order_id |-> oid,
      menu_item_id |-> items[k].menu_item_id,
      price |-> MenuItems[items[k].menu_item_id].price,
      quantity |-> items[k].quantity,
      status |-> "pending"]]

\* POST /orders
CreateOrder(t, items, valid) ==
  /\ IF ~valid THEN
       /\ last' = Response("create_order", 400, "validation", t, Null, NullStr)
       /\ UNCHANGED <<orders, orderItems>>
     ELSE IF t \notin TableIds THEN
       /\ last' = Response("create_order", 404, "not_found", t, Null, NullStr)
       /\ UNCHANGED <<orders, orderItems>>
     ELSE IF ~AllLinesAvailable(items) THEN
       /\ last' = Response("create_order", 400, "item_unavailable", t, Null, NullStr)
       /\ UNCHANGED <<orders, orderItems>>
     ELSE
       LET oid == Len(orders) + 1 IN
       /\ Len(orders) < MaxOrders
       /\ orders' = Append(orders, NewOrder(t, LinesSubtotal(items)))
       /\ orderItems' = orderItems \o NewOrderItems(oid, items)
       /\ last' = Response("create_order", 201, "ok", t, oid, NullStr)
  /\ UNCHANGED <<reservations, starts, inflight, now, opDefined, tables, sessions, users>>

-----------------------------------------------------------------------------
(* Billing: the billing routes (unnamed/part_000) *)

\* req.user.permissions.specialPermissions.discounts of the callers: the
\* Manager and Staff bundles, and a bundle edited through
\* PUT /users/staff/:id/permissions
Callers ==
  {[item |-> TRUE, bill |-> TRUE, maxDiscount |-> 15],
   [item |-> FALSE, bill |-> FALSE, maxDiscount |-> 0],
   [item |-> TRUE, bill |-> FALSE, maxDiscount |-> 150]}

\* discount_type and discount_value of a request: a percentage, or an amount
\* in whole currency units
DiscountRequests ==
  {[type |-> "percentage", value |-> 15],
   [type |-> "percentage", value |-> 20],
   [type |-> "percentage", value |-> 150],
   [type |-> "fixed", value |-> 20]}

\* A DECIMAL column as the handler reads it back from the row
DecimalValue(x) == x

\* discountAmount as an exact fraction over 100, in hundredths
DiscountNumerator(subtotal, type, value) ==
  IF type = "percentage" THEN subtotal * value ELSE 100 * value * 100

\* A limit check that also refuses a percentage equal to the limit
ExceedsMaxDiscountM1(type, value, caller) ==
  type = "percentage" /\ value >= caller.maxDiscount

\* discount_type === 'percentage' && discount_value > maxDiscount
ExceedsMaxDiscount(type, value, caller) ==
  type = "percentage" /\ value > caller.maxDiscount

\* A handler that lets every caller through
LacksDiscountPermissionM1(caller) == FALSE

\* !userPermissions?.item && !userPermissions?.bill
LacksDiscountPermission(caller) == ~caller.item /\ ~caller.bill

\* POST /billing/session/:sessionId/discount
ApplyDiscount(sid, caller, type, value, valid) ==
  /\ IF ~valid THEN
       /\ last' = Response("discount", 400, "validation", Null, sid, NullStr)
       /\ UNCHANGED sessions
     ELSE IF ~SessionExists(sid) THEN
       /\ last' = Response("discount", 404, "not_found", Null, sid, NullStr)
       /\ UNCHANGED sessions
     ELSE IF LacksDiscountPermission(caller) THEN
       /\ last' = Response("discount", 403, "permission", sessions[sid].table_id, sid,
                           sessions[sid].status)
       /\ UNCHANGED sessions
     ELSE IF ExceedsMaxDiscount(type, value, caller) THEN
       /\ last' = Response("discount", 400, "max_discount", sessions[sid].table_id, sid,
                           sessions[sid].status)
       /\ UNCHANGED sessions
     ELSE
       LET s == sessions[sid]
           subtotal == DecimalValue(s.subtotal)
           tax == DecimalValue(s.tax)
           serviceFee == DecimalValue(s.service_fee)
           d == DiscountNumerator(subtotal, type, value)
           newTotal == 100 * (subtotal + tax + serviceFee) - d
       IN
       /\ sessions' = [sessions EXCEPT ![sid] =
            [@ EXCEPT !.discount = Decimal2(d, 100),
                      !.total = Decimal2(Max(0, newTotal), 100)]]
       /\ last' = Response("discount", 200, "ok", s.table_id, sid, s.status)
  /\ UNCHANGED <<reservations, starts, inflight, now, opDefined, tables, orders, orderItems, users>>

\* A payment handler without its already-paid check
AlreadyPaidM1(s) == FALSE

\* session.payment_status === 'paid', the check that rejects a second payment
AlreadyPaid(s) == s.payment_status = "paid"

\* A payment that ends every session not yet completed
EndsInlineM1(s) == s.status # "completed"

\* session.status === 'active', the condition of the inline end of payment
EndsInline(s) == s.status = "active"

\* POST /billing/session/:sessionId/payment
ProcessPayment(sid, method, valid) ==
  /\ IF ~valid THEN
       /\ last' = Response("payment", 400, "validation", Null, sid, NullStr)
       /\ UNCHANGED <<sessions, tables, orders>>
     ELSE IF ~SessionExists(sid) THEN
       /\ last' = Response("payment", 404, "not_found", Null, sid, NullStr)
       /\ UNCHANGED <<sessions, tables, orders>>
     ELSE IF AlreadyPaid(sessions[sid]) THEN
       /\ last' = Response("payment", 400, "already_paid", sessions[sid].table_id, sid,
                           sessions[sid].status)
       /\ UNCHANGED <<sessions, tables, orders>>
     ELSE
       LET s == sessions[sid]
           paid == [s EXCEPT !.payment_status = "paid", !.payment_method = method]
           duration == DurationAt(s, now)
           ended == [paid EXCEPT !.end_time = now,
                                 !.duration = duration,
                                 !.session_cost = Decimal2(duration * s.hourly_rate, 60),
                                 !.status = "completed"]
           after == IF EndsInline(s) THEN ended ELSE paid
           to == IF after.end_time # Null THEN after.end_time ELSE now
           window == OrdersInWindow(s.table_id, s.start_time, to)
       IN
       /\ sessions' = [sessions EXCEPT ![sid] = after]
       /\ tables' = IF EndsInline(s)
                    THEN [tables EXCEPT ![s.table_id] = ResetTable(@, now)]
                    ELSE tables
       /\ IF opDefined THEN
            /\ orders' = [i \in 1..Len(orders) |->
                 IF i \in window THEN [orders[i] EXCEPT !.payment_status = "paid"]
                 ELSE orders[i]]
            /\ last' = Response("payment", 200, "ok", s.table_id, sid, s.status)
          ELSE
            \* Op.gte: ReferenceError after the session and table writes
            /\ UNCHANGED orders
            /\ last' = Response("payment", 500, "reference_error", s.table_id, sid,
                                s.status)
  /\ UNCHANGED <<reservations, starts, inflight, now, opDefined, orderItems, users>>

-----------------------------------------------------------------------------
(* The session routes with overlapping requests: routes/sessions.js and the  *)
(* billing routes, one action per awaited call.  A request keeps the        *)
(* Session instance it loaded in snap; instance.update writes the columns   *)
(* it is given to the row with the instance's id, whatever that row holds   *)
(* by then.                                                                 *)

SessionOps == {"pause", "resume", "extend", "end", "payment"}

\* The HTTP status with which a session route refuses the row findByPk
\* returned, 0 when it goes on
Refusal(op, sid) ==
  IF ~SessionExists(sid) THEN 404
  ELSE IF op = "pause" /\ ~PauseAllowed(sessions[sid]) THEN 400
  ELSE IF op \in {"extend", "end"} /\ sessions[sid].status # "active" THEN 400
  ELSE IF op = "resume" /\ sessions[sid].status # "paused" THEN 400
  ELSE IF op = "payment" /\ AlreadyPaid(sessions[sid]) THEN 400
  ELSE 0

\* The first awaited call of a route after its checks
FirstAwait(op) ==
  IF op = "end" THEN "orders" ELSE IF op = "payment" THEN "paid" ELSE "write"

\* The request is answered
Answered(r, code) == [inflight EXCEPT ![r].pc = "done", ![r].code = code]

\* await Session.findByPk(id) of a session route and the checks after it;
\* endTime and extendedAt are taken in the same turn
SessionArrive(r, op, sid) ==
  /\ inflight[r].pc = "idle"
  /\ op = "extend" /\ SessionExists(sid) => Len(sessions[sid].extensions) < MaxExtensions
  /\ IF Refusal(op, sid) # 0 THEN
       /\ inflight' = [inflight EXCEPT ![r] =
            [IdleRequest EXCEPT !.op = op, !.pc = "done", !.id = sid,
                                !.code = Refusal(op, sid)]]
       /\ last' = Response(op, Refusal(op, sid), "refused", Null, sid,
                           IF SessionExists(sid) THEN sessions[sid].status ELSE NullStr)
     ELSE
       /\ inflight' = [inflight EXCEPT ![r] =
            [IdleRequest EXCEPT !.op = op, !.pc = FirstAwait(op), !.id = sid,
                                !.snap = <<sessions[sid]>>, !.at = now]]
       /\ UNCHANGED last
  /\ UNCHANGED <<tables, sessions, reservations, starts, now, opDefined, orders,
                 orderItems, users>>

\* await session.update({ status: 'paused' })
PauseWrite(r) ==
  LET q == inflight[r] IN
  /\ q.op = "pause" /\ q.pc = "write"
  /\ sessions' = [sessions EXCEPT ![q.id].status = "paused"]
  /\ inflight' = Answered(r, 200)
  /\ last' = Response("pause", 200, "ok", q.snap[1].table_id, q.id, q.snap[1].status)
  /\ UNCHANGED <<tables, reservations, starts, now, opDefined, orders, orderItems, users>>

\* A resume that takes the paused time out of the session by moving its start
ResumedM1(s) == [s EXCEPT !.status = "active", !.start_time = @ + 1]

\* session.update({ status: 'active' }) of resume: the row after the write
Resumed(s) == [s EXCEPT !.status = "active"]

\* await session.update({ status: 'active' })
ResumeWrite(r) ==
  LET q == inflight[r] IN
  /\ q.op = "resume" /\ q.pc = "write"
  /\ sessions' = [sessions EXCEPT ![q.id] = Resumed(@)]
  /\ inflight' = Answered(r, 200)
  /\ last' = Response("resume", 200, "ok", q.snap[1].table_id, q.id, q.snap[1].status)
  /\ UNCHANGED <<tables, reservations, starts, now, opDefined, orders, orderItems, users>>

\* extensions.push({...}) on the log the request loaded
ExtendedLog(q) ==
  Append(q.snap[1].extensions,
         [extendedBy |-> 30, extendedAt |-> q.at, reason |-> "Manual extension"])

\* await session.update({ extensions })
ExtendWrite(r) ==
  LET q == inflight[r] IN
  /\ q.op = "extend" /\ q.pc = "write"
  /\ sessions' = [sessions EXCEPT ![q.id].extensions = ExtendedLog(q)]
  /\ inflight' = Answered(r, 200)
  /\ last' = Response("extend", 200, "ok", q.snap[1].table_id, q.id, q.snap[1].status)
  /\ UNCHANGED <<tables, reservations, starts, now, opDefined, orders, orderItems, users>>

\* await Order.findAll({ where: { created_at: { [Op.gte]: ..., [Op.lte]: ... } } })
\* of End, and the bill computed from its rows
EndFindOrders(r) ==
  LET q == inflight[r]
      b == EndBill(q.snap[1], q.at)
  IN
  /\ q.op = "end" /\ q.pc = "orders"
  /\ IF ~opDefined THEN
       /\ inflight' = Answered(r, 500)
       /\ last' = Response("end", 500, "reference_error", q.snap[1].table_id, q.id,
                           q.snap[1].status)
     ELSE
       /\ inflight' = [inflight EXCEPT ![r].pc = "write",
            ![r].snap = <<[q.snap[1] EXCEPT !.end_time = b.end_time,
                                            !.duration = b.duration,
                                            !.session_cost = b.session_cost,
                                            !.total_order_cost = b.total_order_cost,
                                            !.subtotal = b.subtotal,
                                            !.tax = b.tax,
                                            !.service_fee = b.service_fee,
                                            !.total = b.total,
                                            !.status = "completed"]>>]
       /\ UNCHANGED last
  /\ UNCHANGED <<tables, sessions, reservations, starts, now, opDefined, orders,
                 orderItems, users>>

\* await session.update({ end_time, duration, ..., status: 'completed' }) of End
EndWriteSession(r) ==
  LET q == inflight[r]
      b == q.snap[1]
  IN
  /\ q.op = "end" /\ q.pc = "write"
  /\ sessions' = [sessions EXCEPT ![q.id] =
       [@ EXCEPT !.end_time = b.end_time,
                 !.duration = b.duration,
                 !.session_cost = b.session_cost,
                 !.total_order_cost = b.total_order_cost,
                 !.subtotal = b.subtotal,
                 !.tax = b.tax,
                 !.service_fee = b.service_fee,
                 !.total = b.total,
                 !.status = "completed"]]
  /\ inflight' = [inflight EXCEPT ![r].pc = "table"]
  /\ UNCHANGED <<tables, last, reservations, starts, now, opDefined, orders, orderItems,
                 users>>

\* await session.table.update({ status: 'available', ... }) of End
EndWriteTable(r) ==
  LET q == inflight[r] IN
  /\ q.op = "end" /\ q.pc = "table"
  /\ tables' = [tables EXCEPT ![q.snap[1].table_id] = ResetTable(@, q.at)]
  /\ inflight' = Answered(r, 200)
  /\ last' = Response("end", 200, "ok", q.snap[1].table_id, q.id, "active")
  /\ UNCHANGED <<sessions, reservations, starts, now, opDefined, orders, orderItems, users>>

\* await session.update({ payment_status: 'paid', payment_method })
PayWritePaid(r) ==
  LET q == inflight[r] IN
  /\ q.op = "payment" /\ q.pc = "paid"
  /\ sessions' = [sessions EXCEPT ![q.id].payment_status = "paid",
                                  ![q.id].payment_method = "cash"]
  /\ inflight' = [inflight EXCEPT ![r].pc = IF EndsInline(q.snap[1]) THEN "end" ELSE "orders"]
  /\ UNCHANGED <<tables, last, reservations, starts, now, opDefined, orders, orderItems,
                 users>>

\* await session.update({ end_time, duration, session_cost, status: 'completed' })
\* of payment, with endTime taken in the same turn
PayWriteEnd(r) ==
  LET q == inflight[r]
      duration == DurationAt(q.snap[1], now)
      cost == Decimal2(duration * q.snap[1].hourly_rate, 60)
  IN
  /\ q.op = "payment" /\ q.pc = "end"
  /\ sessions' = [sessions EXCEPT ![q.id] =
       [@ EXCEPT !.end_time = now,
                 !.duration = duration,
                 !.session_cost = cost,
                 !.status = "completed"]]
  /\ inflight' = [inflight EXCEPT ![r].pc = "table", ![r].at = now,
       ![r].snap = <<[q.snap[1] EXCEPT !.end_time = now]>>]
  /\ UNCHANGED <<tables, last, reservations, starts, now, opDefined, orders, orderItems,
                 users>>

\* await session.table.update({ status: 'available', ... }) of payment
PayWriteTable(r) ==
  LET q == inflight[r] IN
  /\ q.op = "payment" /\ q.pc = "table"
  /\ tables' = [tables EXCEPT ![q.snap[1].table_id] = ResetTable(@, q.at)]
  /\ inflight' = [inflight EXCEPT ![r].pc = "orders"]
  /\ UNCHANGED <<sessions, last, reservations, starts, now, opDefined, orders, orderItems,
                 users>>

\* await Order.update({ payment_status: 'paid' }, { where: { ..., [Op.gte]: ... } })
PayMarkOrders(r) ==
  LET q == inflight[r]
      s == q.snap[1]
      to == IF s.end_time # Null THEN s.end_time ELSE now
      window == OrdersInWindow(s.table_id, s.start_time, to)
  IN
  /\ q.op = "payment" /\ q.pc = "orders"
  /\ IF opDefined THEN
       /\ orders' = [i \in 1..Len(orders) |->
            IF i \in window THEN [orders[i] EXCEPT !.payment_status = "paid"]
            ELSE orders[i]]
       /\ inflight' = Answered(r, 200)
       /\ last' = Response("payment", 200, "ok", s.table_id, q.id, s.status)
     ELSE
       /\ UNCHANGED orders
       /\ inflight' = Answered(r, 500)
       /\ last' = Response("payment", 500, "reference_error", s.table_id, q.id, s.status)
  /\ UNCHANGED <<tables, sessions, reservations, starts, now, opDefined, orderItems, users>>

-----------------------------------------------------------------------------
(* Order status and KOT: routes/auth.js (order routes) and routes/kot.js *)

OrderStatuses == {"pending", "confirmed", "preparing", "ready", "served", "cancelled"}

ItemStatuses == {"pending", "preparing", "ready", "served"}

\* Order.findByPk(id): whether the row exists
OrderExists(oid) == oid \in 1..Len(orders)

\* OrderItem.findByPk(id): whether the row exists
ItemExists(iid) == iid \in 1..Len(orderItems)

\* OrderItem.findAll({ where: { order_id } }) over the item rows `items`
ItemsOf(items, oid) == {k \in 1..Len(items) : items[k].order_id = oid}

\* A cascade that fires as soon as some item of the order is ready
AllReadyM1(items, oid) == \E k \in ItemsOf(items, oid) : items[k].status = "ready"

\* allItems.every(item => item.status === 'ready')
AllReady(items, oid) == \A k \in ItemsOf(items, oid) : items[k].status = "ready"

\* A status update that follows the cancel route and refuses a served order
UpdateOrderStatusM1(oid, status) ==
  /\ IF status \notin OrderStatuses THEN
       /\ last' = Response("order_status", 400, "validation", Null, oid, NullStr)
       /\ UNCHANGED orders
     ELSE IF ~OrderExists(oid) THEN
       /\ last' = Response("order_status", 404, "not_found", Null, oid, NullStr)
       /\ UNCHANGED orders
     ELSE IF orders[oid].status = "served" THEN
       /\ last' = Response("order_status", 400, "served", orders[oid].table_id, oid,
                           "served")
       /\ UNCHANGED orders
     ELSE
       /\ orders' = [orders EXCEPT ![oid].status = status]
       /\ last' = Response("order_status", 200, "ok", orders[oid].table_id, oid,
                           orders[oid].status)
  /\ UNCHANGED <<reservations, starts, inflight, now, opDefined, tables, sessions, orderItems, users>>

\* PATCH /orders/:id/status
UpdateOrderStatus(oid, status) ==
  /\ IF status \notin OrderStatuses THEN
       /\ last' = Response("order_status", 400, "validation", Null, oid, NullStr)
       /\ UNCHANGED orders
     ELSE IF ~OrderExists(oid) THEN
       /\ last' = Response("order_status", 404, "not_found", Null, oid, NullStr)
       /\ UNCHANGED orders
     ELSE
       /\ orders' = [orders EXCEPT ![oid].status = status]
       /\ last' = Response("order_status", 200, "ok", orders[oid].table_id, oid,
                           orders[oid].status)
  /\ UNCHANGED <<reservations, starts, inflight, now, opDefined, tables, sessions, orderItems, users>>

\* PATCH /orders/:orderId/items/:itemId/status
UpdateOrderItemStatus(oid, iid, status) ==
  /\ IF status \notin ItemStatuses THEN
       /\ last' = Response("item_status", 400, "validation", Null, iid, NullStr)
       /\ UNCHANGED orderItems
     ELSE IF ~(ItemExists(iid) /\ orderItems[iid].order_id = oid) THEN
       /\ last' = Response("item_status", 404, "not_found", Null, iid, NullStr)
       /\ UNCHANGED orderItems
     ELSE
       /\ orderItems' = [orderItems EXCEPT ![iid].status = status]
       /\ last' = Response("item_status", 200, "ok", Null, iid, status)
  /\ UNCHANGED <<reservations, starts, inflight, now, opDefined, tables, sessions, orders, users>>

\* POST /orders/:id/kot
PrintKot(oid) ==
  /\ IF ~OrderExists(oid) THEN
       /\ last' = Response("kot_print", 404, "not_found", Null, oid, NullStr)
       /\ UNCHANGED orders
     ELSE
       /\ orders' = [orders EXCEPT ![oid].kot_printed = TRUE,
                                   ![oid].kot_printed_at = now]
       /\ last' = Response("kot_print", 200, "ok", orders[oid].table_id, oid,
                           orders[oid].status)
  /\ UNCHANGED <<reservations, starts, inflight, now, opDefined, tables, sessions, orderItems, users>>

\* DELETE /orders/:id
CancelOrder(oid) ==
  /\ IF ~OrderExists(oid) THEN
       /\ last' = Response("cancel_order", 404, "not_found", Null, oid, NullStr)
       /\ UNCHANGED orders
     ELSE IF orders[oid].status = "served" THEN
       /\ last' = Response("cancel_order", 400, "served", orders[oid].table_id, oid,
                           "served")
       /\ UNCHANGED orders
     ELSE
       /\ orders' = [orders EXCEPT ![oid].status = "cancelled"]
       /\ last' = Response("cancel_order", 200, "ok", orders[oid].table_id, oid,
                           orders[oid].status)
  /\ UNCHANGED <<reservations, starts, inflight, now, opDefined, tables, sessions, orderItems, users>>

\* PATCH /kot/items/:itemId/complete
CompleteItem(iid) ==
  /\ IF ~ItemExists(iid) THEN
       /\ last' = Response("item_complete", 404, "not_found", Null, iid, NullStr)
       /\ UNCHANGED <<orders, orderItems>>
     ELSE
       LET oid == orderItems[iid].order_id
           written == [orderItems EXCEPT ![iid].status = "ready"]
       IN
       /\ orderItems' = written
       /\ orders' = IF AllReady(written, oid)
                    THEN [orders EXCEPT ![oid].status = "ready"]
                    ELSE orders
       /\ last' = Response("item_complete", 200, "ok", Null, iid, orders[oid].status)
  /\ UNCHANGED <<reservations, starts, inflight, now, opDefined, tables, sessions, users>>

\* PATCH /kot/orders/:orderId/complete
CompleteOrder(oid) ==
  /\ IF ~OrderExists(oid) THEN
       /\ last' = Response("order_complete", 404, "not_found", Null, oid, NullStr)
       /\ UNCHANGED <<orders, orderItems>>
     ELSE
       /\ orderItems' = [k \in 1..Len(orderItems) |->
            IF orderItems[k].order_id = oid
            THEN [orderItems[k] EXCEPT !.status = "ready"]
            ELSE orderItems[k]]
       /\ orders' = [orders EXCEPT ![oid].status = "ready"]
       /\ last' = Response("order_complete", 200, "ok", orders[oid].table_id, oid,
                           NullStr)
  /\ UNCHANGED <<reservations, starts, inflight, now, opDefined, tables, sessions, users>>

-----------------------------------------------------------------------------
(* Order creation call by call: routes/auth.js (order routes).  Any awaited  *)
(* call after the checks may throw, which the handler's catch answers with *)
(* 500.                                                                     *)

\* validationResult, Table.findByPk and MenuItem.findByPk for every line, on
\* table 1; snap is the orderItems array the handler builds
OrderArrive(r, items) ==
  /\ inflight[r].pc = "idle"
  /\ IF ~AllLinesAvailable(items) THEN
       /\ inflight' = [inflight EXCEPT ![r] =
            [IdleRequest EXCEPT !.op = "create_order", !.pc = "done", !.snap = items,
                                !.code = 400]]
       /\ last' = Response("create_order", 400, "item_unavailable", 1, Null, NullStr)
     ELSE
       /\ inflight' = [inflight EXCEPT ![r] =
            [IdleRequest EXCEPT !.op = "create_order", !.pc = "create", !.snap = items]]
       /\ UNCHANGED last
  /\ UNCHANGED <<tables, sessions, reservations, starts, now, opDefined, orders,
                 orderItems, users>>

\* await Order.create({ table_id, subtotal, tax, total, ... })
OrderCreateRow(r) ==
  LET q == inflight[r] IN
  /\ q.op = "create_order" /\ q.pc = "create"
  /\ Len(orders) < MaxOrders
  /\ orders' = Append(orders, NewOrder(1, LinesSubtotal(q.snap)))
  /\ inflight' = [inflight EXCEPT ![r].pc = "items", ![r].id = Len(orders) + 1]
  /\ UNCHANGED <<tables, sessions, reservations, starts, now, opDefined, orderItems,
                 last, users>>

\* await OrderItem.create({ order_id: order.id, ...item }), one turn of the loop
OrderCreateItem(r) ==
  LET q == inflight[r] IN
  /\ q.op = "create_order" /\ q.pc = "items"
  /\ orderItems' = Append(orderItems, NewOrderItems(q.id, q.snap)[q.k + 1])
  /\ inflight' = [inflight EXCEPT ![r].k = q.k + 1,
                                  ![r].pc = IF q.k + 1 = Len(q.snap) THEN "respond" ELSE "items"]
  /\ UNCHANGED <<tables, sessions, reservations, starts, now, opDefined, orders, last,
                 users>>

\* await Order.findByPk(order.id, { include }) and res.status(201)
OrderRespond(r) ==
  LET q == inflight[r] IN
  /\ q.op = "create_order" /\ q.pc = "respond"
  /\ inflight' = Answered(r, 201)
  /\ last' = Response("create_order", 201, "ok", 1, q.id, NullStr)
  /\ UNCHANGED <<tables, sessions, reservations, starts, now, opDefined, orders,
                 orderItems, users>>

\* A catch that takes back the order row and the items written so far
OrderFailM1(r) ==
  LET q == inflight[r] IN
  /\ q.op = "create_order" /\ q.pc \in {"create", "items", "respond"}
  /\ orders' = IF q.id = Len(orders) THEN SubSeq(orders, 1, q.id - 1) ELSE orders
  /\ orderItems' = IF q.id = Len(orders)
                   THEN SelectSeq(orderItems, LAMBDA it : it.order_id # q.id)
                   ELSE orderItems
  /\ inflight' = Answered(r, 500)
  /\ last' = Response("create_order", 500, "server_error", 1, q.id, NullStr)
  /\ UNCHANGED <<tables, sessions, reservations, starts, now, opDefined, users>>

\* The awaited call throws: catch (error) { res.status(500) }, nothing undone
OrderFail(r) ==
  LET q == inflight[r] IN
  /\ q.op = "create_order" /\ q.pc \in {"create", "items", "respond"}
  /\ inflight' = Answered(r, 500)
  /\ last' = Response("create_order", 500, "server_error", 1, q.id, NullStr)
  /\ UNCHANGED <<tables, sessions, reservations, starts, now, opDefined, orders,
                 orderItems, users>>

-----------------------------------------------------------------------------
(* KOT item completion with overlapping requests: routes/kot.js, one action  *)
(* per awaited call                                                         *)

\* await OrderItem.findByPk(itemId, { include: order })
ItemArrive(r, iid) ==
  /\ inflight[r].pc = "idle"
  /\ IF ~ItemExists(iid) THEN
       /\ inflight' = [inflight EXCEPT ![r] =
            [IdleRequest EXCEPT !.op = "item_complete", !.pc = "done", !.id = iid,
                                !.code = 404]]
       /\ last' = Response("item_complete", 404, "not_found", Null, iid, NullStr)
     ELSE
       /\ inflight' = [inflight EXCEPT ![r] =
            [IdleRequest EXCEPT !.op = "item_complete", !.pc = "update", !.id = iid,
                                !.snap = <<orderItems[iid]>>]]
       /\ UNCHANGED last
  /\ UNCHANGED <<tables, sessions, reservations, starts, now, opDefined, orders,
                 orderItems, users>>

\* await orderItem.update({ status: 'ready' })
ItemWriteReady(r) ==
  LET q == inflight[r] IN
  /\ q.op = "item_complete" /\ q.pc = "update"
  /\ orderItems' = [orderItems EXCEPT ![q.id].status = "ready"]
  /\ inflight' = [inflight EXCEPT ![r].pc = "findAll"]
  /\ UNCHANGED <<tables, sessions, reservations, starts, now, opDefined, orders, last,
                 users>>

\* Item rows as they were before the request's own write
ReadItemsM1(q) == [orderItems EXCEPT ![q.id] = q.snap[1]]

\* The rows OrderItem.findAll reads: the stored ones, the request's own write
\* included
ReadItems(q) == orderItems

\* await OrderItem.findAll({ where: { order_id } }) and allItems.every(...)
ItemFindAll(r) ==
  LET q == inflight[r] IN
  /\ q.op = "item_complete" /\ q.pc = "findAll"
  /\ IF AllReady(ReadItems(q), q.snap[1].order_id) THEN
       /\ inflight' = [inflight EXCEPT ![r].pc = "order"]
       /\ UNCHANGED last
     ELSE
       /\ inflight' = Answered(r, 200)
       /\ last' = Response("item_complete", 200, "ok", Null, q.id,
                           orders[q.snap[1].order_id].status)
  /\ UNCHANGED <<tables, sessions, reservations, starts, now, opDefined, orders,
                 orderItems, users>>

\* await Order.update({ status: 'ready' }, { where: { id: order_id } })
ItemWriteOrder(r) ==
  LET q == inflight[r]
      oid == q.snap[1].order_id
  IN
  /\ q.op = "item_complete" /\ q.pc = "order"
  /\ orders' = [orders EXCEPT ![oid].status = "ready"]
  /\ inflight' = Answered(r, 200)
  /\ last' = Response("item_complete", 200, "ok", Null, q.id, orders[oid].status)
  /\ UNCHANGED <<tables, sessions, reservations, starts, now, opDefined, orderItems,
                 users>>

-----------------------------------------------------------------------------
(* Users: routes/auth.js (register) and the staff routes (unnamed/part_003) *)

Roles == {"Admin", "Manager", "Staff", "User"}

Emails == {"a@x", "b@x"}

Usernames == {"ann", "bob", "cy"}

\* permissions.specialPermissions.discounts of the bundle register assigns
RegisterDiscounts(role) ==
  IF role = "Admin" THEN [item |-> TRUE, bill |-> TRUE, maxDiscount |-> 25]
  ELSE IF role = "Manager" THEN [item |-> TRUE, bill |-> TRUE, maxDiscount |-> 15]
  ELSE [item |-> FALSE, bill |-> FALSE, maxDiscount |-> 0]

\* permissions.specialPermissions.discounts of the bundle create-staff assigns
StaffDiscounts(role) ==
  IF role = "Manager" THEN [item |-> TRUE, bill |-> TRUE, maxDiscount |-> 15]
  ELSE [item |-> FALSE, bill |-> FALSE, maxDiscount |-> 0]

\* A lookup by username alone
ExistingUserM1(email, username) ==
  \E i \in 1..Len(users) : users[i].username = username

\* User.findOne({ where: { $or: [{ email }, { username }] } })
ExistingUser(email, username) ==
  \E i \in 1..Len(users) : users[i].email = email \/ users[i].username = username

\* User.create({username, email, role, permissions})
NewUser(username, email, role, discounts) ==
  [username |-> username, email |-> email, role |-> role, discounts |-> discounts]

\* The response of a user handler, with the username and email of the request
UserResponse(op, code, why, username, email) ==
  [op |-> op, code |-> code, why |-> why, username |-> username, email |-> email]

\* POST /auth/register
Register(username, email, role, valid) ==
  /\ IF ~valid \/ role \notin Roles THEN
       /\ last' = UserResponse("register", 400, "validation", username, email)
       /\ UNCHANGED users
     ELSE IF ExistingUser(email, username) THEN
       /\ last' = UserResponse("register", 400, "exists", username, email)
       /\ UNCHANGED users
     ELSE
       /\ Len(users) < MaxUsers
       /\ users' = Append(users, NewUser(username, email, role, RegisterDiscounts(role)))
       /\ last' = UserResponse("register", 201, "ok", username, email)
  /\ UNCHANGED <<reservations, starts, inflight, now, opDefined, tables, sessions, orders, orderItems>>

\* POST /users/staff
CreateStaff(username, email, role, valid) ==
  /\ IF ~valid \/ role \notin {"Staff", "Manager"} THEN
       /\ last' = UserResponse("create_staff", 400, "validation", username, email)
       /\ UNCHANGED users
     ELSE IF ExistingUser(email, username) THEN
       /\ last' = UserResponse("create_staff", 400, "exists", username, email)
       /\ UNCHANGED users
     ELSE
       /\ Len(users) < MaxUsers
       /\ users' = Append(users, NewUser(username, email, role, StaffDiscounts(role)))
       /\ last' = UserResponse("create_staff", 201, "ok", username, email)
  /\ UNCHANGED <<reservations, starts, inflight, now, opDefined, tables, sessions, orders, orderItems>>

-----------------------------------------------------------------------------
(* Reservations: the reservation routes (unnamed/part_004) and the table
   update route (routes/tables.js) *)

TableTypes == {"Snooker", "Pool"}

\* table_type of a reservation request, as validated
ReservationTypes == {"Snooker Table", "Pool Table"}

\* reservation_date and reservation_time of a request
Slots == {[date |-> "2026-01-01", time |-> "18:00"],
          [date |-> "2026-01-01", time |-> "19:00"]}

ReservationStatuses == {"confirmed", "arrived", "cancelled", "completed", "no-show"}

\* table_type.replace(' Table', '').replace(' Station', '')
StripType(tableType) ==
  IF tableType = "Snooker Table" THEN "Snooker"
  ELSE IF tableType = "Pool Table" THEN "Pool"
  ELSE IF tableType = "PlayStation Station" THEN "PlayStation"
  ELSE IF tableType = "Restaurant Table" THEN "Restaurant"
  ELSE "Dining"

\* Table.findAll({ where: { type, status: 'available', is_active: true } })
AvailableTables(tableType) ==
  {t \in TableIds :
     /\ tables[t].type = StripType(tableType)
     /\ tables[t].status = "available"
     /\ tables[t].is_active}

\* Reservation.findAll({ where: { table_type, reservation_date,
\*   reservation_time, status: ['confirmed', 'arrived'] } })
ConflictingReservations(tableType, slot) ==
  {i \in 1..Len(reservations) :
     /\ reservations[i].table_type = tableType
     /\ reservations[i].reservation_date = slot.date
     /\ reservations[i].reservation_time = slot.time
     /\ reservations[i].status \in {"confirmed", "arrived"}}

\* A check that refuses only when the conflicts outnumber the tables
NoTableLeftM1(conflicts, available) == conflicts > available

\* conflictingReservations.length >= availableTables.length
NoTableLeft(conflicts, available) == conflicts >= available

\* availableTables[0]: the rows come back in primary-key order
FirstOf(S) == CHOOSE t \in S : \A u \in S : t <= u

\* Reservation.create({..., table_id: assignedTable.id, ...}) with the
\* column defaults
NewReservation(c, t, tableType, slot) ==
  [customer_name |-> c.name,
   customer_phone |-> c.phone,
   table_id |-> t,
   table_type |-> tableType,
   reservation_date |-> slot.date,
   reservation_time |-> slot.time,
   status |-> "confirmed"]

\* POST /reservations
CreateReservation(c, tableType, slot, valid) ==
  /\ IF ~valid \/ tableType \notin ReservationTypes THEN
       /\ last' = Response("reserve", 400, "validation", Null, Null, NullStr)
       /\ UNCHANGED reservations
     ELSE IF AvailableTables(tableType) = {} THEN
       /\ last' = Response("reserve", 400, "no_tables", Null, Null, NullStr)
       /\ UNCHANGED reservations
     ELSE IF NoTableLeft(Cardinality(ConflictingReservations(tableType, slot)),
                         Cardinality(AvailableTables(tableType))) THEN
       /\ last' = Response("reserve", 400, "no_tables_at_time", Null, Null, NullStr)
       /\ UNCHANGED reservations
     ELSE
       LET t == FirstOf(AvailableTables(tableType)) IN
       /\ Len(reservations) < MaxReservations
       /\ reservations' = Append(reservations, NewReservation(c, t, tableType, slot))
       /\ last' = Response("reserve", 201, "ok", t, Len(reservations) + 1, "available")
  /\ UNCHANGED <<starts, inflight, now, opDefined, tables, sessions, orders, orderItems, users>>

\* Reservation.findByPk(id): whether the row exists
ReservationExists(rid) == rid \in 1..Len(reservations)

\* A release that forgets the no-show status
FreesTableM1(status) == status \in {"cancelled", "completed"}

\* ['cancelled', 'completed', 'no-show'].includes(status)
FreesTable(status) == status \in {"cancelled", "completed", "no-show"}

\* PATCH /reservations/:id/status
UpdateReservationStatus(rid, status) ==
  /\ IF status \notin ReservationStatuses THEN
       /\ last' = Response("reservation_status", 400, "validation", Null, rid, NullStr)
       /\ UNCHANGED <<reservations, tables>>
     ELSE IF ~ReservationExists(rid) THEN
       /\ last' = Response("reservation_status", 404, "not_found", Null, rid, NullStr)
       /\ UNCHANGED <<reservations, tables>>
     ELSE
       LET t == reservations[rid].table_id IN
       /\ reservations' = [reservations EXCEPT ![rid].status = status]
       /\ tables' = IF status = "arrived" /\ t # Null
                    THEN [tables EXCEPT ![t].status = "reserved"]
                    ELSE IF FreesTable(status) /\ t # Null
                    THEN [tables EXCEPT ![t].status = "available"]
                    ELSE tables
       /\ last' = Response("reservation_status", 200, status, t, rid, tables[t].status)
  /\ UNCHANGED <<starts, inflight, now, opDefined, sessions, orders, orderItems, users>>

\* DELETE /reservations/:id
CancelReservation(rid) ==
  /\ IF ~ReservationExists(rid) THEN
       /\ last' = Response("reservation_cancel", 404, "not_found", Null, rid, NullStr)
       /\ UNCHANGED <<reservations, tables>>
     ELSE IF reservations[rid].status = "completed" THEN
       /\ last' = Response("reservation_cancel", 400, "completed",
                           reservations[rid].table_id, rid, NullStr)
       /\ UNCHANGED <<reservations, tables>>
     ELSE
       LET t == reservations[rid].table_id IN
       /\ reservations' = [reservations EXCEPT ![rid].status = "cancelled"]
       /\ tables' = IF t # Null THEN [tables EXCEPT ![t].status = "available"]
                    ELSE tables
       /\ last' = Response("reservation_cancel", 200, "ok", t, rid, tables[t].status)
  /\ UNCHANGED <<starts, inflight, now, opDefined, sessions, orders, orderItems, users>>

\* PUT /tables/:id with a body of type and status, either of which may be
\* absent (NullStr); the other columns are not sent and keep their values
UpdateTable(t, type, status) ==
  /\ IF t \notin TableIds THEN
       /\ last' = Response("table_update", 404, "not_found", t, Null, NullStr)
       /\ UNCHANGED tables
     ELSE
       /\ tables' = [tables EXCEPT
            ![t].type = IF type # NullStr THEN type ELSE @,
            ![t].status = IF status # NullStr THEN status ELSE @]
       /\ last' = Response("table_update", 200, "ok", t, Null, tables[t].status)
  /\ UNCHANGED <<reservations, starts, inflight, now, opDefined, sessions, orders, orderItems,
                 users>>

-----------------------------------------------------------------------------
Init ==
  /\ now = 0
  /\ opDefined \in BOOLEAN
  /\ tables = [t \in TableIds |-> NewTable(t)]
  /\ sessions = <<>>
  /\ orders = <<>>
  /\ orderItems = <<>>
  /\ users = <<>>
  /\ reservations = <<>>
  /\ starts = [r \in StartRequests |-> IdleStart]
  /\ inflight = [r \in ReqIds |-> IdleRequest]
  /\ last = Response("none", 0, "none", Null, Null, NullStr)

\* The ids a request may name: every stored row and one that is missing
SessionIdsReq == 1..(Len(sessions) + 1)

\* Front of house: table status and the session lifecycle
Next ==
  \/ \E t \in TableIds \cup {MissingId}, c \in Customers, valid \in BOOLEAN :
       StartSession(t, c, valid)
  \/ \E sid \in SessionIdsReq : EndSession(sid)
  \/ \E sid \in SessionIdsReq : PauseSession(sid)
  \/ \E sid \in SessionIdsReq : ResumeSession(sid)
  \/ \E t \in TableIds \cup {MissingId}, st \in TableStatuses \cup {"bogus"} :
       UpdateTableStatus(t, st)

\* Billing: sessions with orders, ended or paid as time passes
NextBilling ==
  \/ Tick
  \/ \E t \in TableIds, c \in Customers :
       Len(sessions) < MaxBilledSessions /\ StartSession(t, c, TRUE)
  \/ \E sid \in SessionIdsReq : EndSession(sid)
  \/ \E sid \in SessionIdsReq : PauseSession(sid)
  \/ \E sid \in SessionIdsReq : ResumeSession(sid)
  \/ \E t \in TableIds, items \in BillingOrderRequests :
       CreateOrder(t, items, TRUE)
  \/ \E sid \in SessionIdsReq, m \in PaymentMethods, valid \in BOOLEAN :
       ProcessPayment(sid, m, valid)

\* The discount handler on sessions with orders
NextDiscount ==
  \/ Tick
  \/ \E t \in TableIds, c \in Customers :
       Len(sessions) < MaxBilledSessions /\ StartSession(t, c, TRUE)
  \/ \E sid \in SessionIdsReq : EndSession(sid)
  \/ \E t \in TableIds, items \in BillingOrderRequests :
       CreateOrder(t, items, TRUE)
  \/ \E sid \in SessionIdsReq, caller \in Callers, r \in DiscountRequests,
        valid \in BOOLEAN :
       ApplyDiscount(sid, caller, r.type, r.value, valid)

\* Kitchen: order creation, order and item status, KOT completion
NextKitchen ==
  \/ \E t \in {1, MissingId}, items \in OrderRequests, valid \in BOOLEAN :
       CreateOrder(t, items, valid)
  \/ \E oid \in 1..(Len(orders) + 1), st \in {"confirmed", "served", "bogus"} :
       UpdateOrderStatus(oid, st)
  \/ \E oid \in 1..(Len(orders) + 1), iid \in 1..(Len(orderItems) + 1),
        st \in {"preparing", "bogus"} :
       UpdateOrderItemStatus(oid, iid, st)
  \/ \E iid \in 1..(Len(orderItems) + 1) : CompleteItem(iid)
  \/ \E oid \in 1..(Len(orders) + 1) : CompleteOrder(oid)

\* User registration and staff creation
NextUsers ==
  \/ \E u \in Usernames, e \in Emails, r \in Roles, valid \in BOOLEAN :
       Register(u, e, r, valid)
  \/ \E u \in Usernames, e \in Emails, r \in Roles, valid \in BOOLEAN :
       CreateStaff(u, e, r, valid)

\* The session lifecycle with the billing handlers, at one instant
NextLifecycle ==
  \/ \E t \in TableIds, c \in Customers : StartSession(t, c, TRUE)
  \/ \E sid \in SessionIdsReq : EndSession(sid)
  \/ \E sid \in SessionIdsReq : PauseSession(sid)
  \/ \E sid \in SessionIdsReq : ResumeSession(sid)
  \/ \E sid \in SessionIdsReq, valid \in BOOLEAN : ExtendSession(sid, 30, valid)
  \/ \E sid \in SessionIdsReq, caller \in Callers :
       ApplyDiscount(sid, caller, "fixed", 20, TRUE)
  \/ \E sid \in SessionIdsReq, m \in PaymentMethods :
       ProcessPayment(sid, m, TRUE)

\* The item lists of the orders whose amounts are followed
AmountOrderRequests == {<<Line(1, 1)>>, <<Line(2, 1), Line(1, 2)>>}

\* Every handler that writes an order row, on the orders of table 1
NextOrders ==
  \/ \E items \in AmountOrderRequests : CreateOrder(1, items, TRUE)
  \/ \E oid \in 1..Len(orders) : UpdateOrderStatus(oid, "served")
  \/ \E iid \in 1..Len(orderItems) :
       UpdateOrderItemStatus(orderItems[iid].order_id, iid, "preparing")
  \/ \E oid \in 1..Len(orders) : PrintKot(oid)
  \/ \E iid \in 1..Len(orderItems) : CompleteItem(iid)
  \/ \E oid \in 1..Len(orders) : CompleteOrder(oid)
  \/ \E oid \in 1..Len(orders) : CancelOrder(oid)
  \/ \E c \in Customers :
       Len(sessions) < MaxBilledSessions /\ StartSession(1, c, TRUE)
  \/ \E sid \in 1..Len(sessions) : ProcessPayment(sid, "cash", TRUE)

\* The order status route next to the cancel and KOT print routes
NextOrderStatus ==
  \/ \E items \in AmountOrderRequests : CreateOrder(1, items, TRUE)
  \/ \E oid \in 1..(Len(orders) + 1), st \in OrderStatuses \cup {"bogus"} :
       UpdateOrderStatus(oid, st)
  \/ \E oid \in 1..(Len(orders) + 1) : CancelOrder(oid)
  \/ \E oid \in 1..(Len(orders) + 1) : PrintKot(oid)

\* The session routes of one table with their awaited calls interleaved
NextSessionRace ==
  \/ Tick
  \/ \E c \in Customers :
       Len(sessions) < MaxBilledSessions /\ StartSession(1, c, TRUE)
  \/ \E r \in ReqIds, op \in SessionOps, sid \in SessionIdsReq : SessionArrive(r, op, sid)
  \/ \E r \in ReqIds : PauseWrite(r)
  \/ \E r \in ReqIds : ResumeWrite(r)
  \/ \E r \in ReqIds : ExtendWrite(r)
  \/ \E r \in ReqIds : EndFindOrders(r)
  \/ \E r \in ReqIds : EndWriteSession(r)
  \/ \E r \in ReqIds : EndWriteTable(r)
  \/ \E r \in ReqIds : PayWritePaid(r)
  \/ \E r \in ReqIds : PayWriteEnd(r)
  \/ \E r \in ReqIds : PayWriteTable(r)
  \/ \E r \in ReqIds : PayMarkOrders(r)

\* The item lists of the create-order requests followed call by call
FailingOrderRequests == {<<Line(2, 1), Line(1, 2)>>, <<Line(1, 1), Line(3, 1)>>}

\* Order creation whose calls may fail, next to the routes that write orders
NextOrderCreate ==
  \/ \E r \in ReqIds, items \in FailingOrderRequests : OrderArrive(r, items)
  \/ \E r \in ReqIds : OrderCreateRow(r)
  \/ \E r \in ReqIds : OrderCreateItem(r)
  \/ \E r \in ReqIds : OrderRespond(r)
  \/ \E r \in ReqIds : OrderFail(r)
  \/ \E oid \in 1..Len(orders) : CancelOrder(oid)
  \/ \E oid \in 1..Len(orders) : CompleteOrder(oid)

\* Item-complete requests on the items of the orders of table 1, interleaved
NextKitchenRace ==
  \/ \E items \in AmountOrderRequests : CreateOrder(1, items, TRUE)
  \/ \E r \in ReqIds, iid \in 1..(Len(orderItems) + 1) : ItemArrive(r, iid)
  \/ \E r \in ReqIds : ItemWriteReady(r)
  \/ \E r \in ReqIds : ItemFindAll(r)
  \/ \E r \in ReqIds : ItemWriteOrder(r)

\* Reservations next to the sessions of the same tables
NextReservations ==
  \/ \E c \in Customers, tt \in ReservationTypes, slot \in Slots, valid \in BOOLEAN :
       CreateReservation(c, tt, slot, valid)
  \/ \E rid \in 1..(Len(reservations) + 1), st \in ReservationStatuses \cup {"bogus"} :
       UpdateReservationStatus(rid, st)
  \/ \E rid \in 1..(Len(reservations) + 1) : CancelReservation(rid)
  \/ \E t \in TableIds \cup {MissingId} : UpdateTable(t, "Snooker", NullStr)
  \/ \E t \in TableIds, c \in Customers :
       Len(sessions) < MaxBilledSessions /\ StartSession(t, c, TRUE)

\* Two start-session requests whose awaited calls interleave
NextRace ==
  \/ Tick
  \/ \E r \in StartRequests, t \in TableIds \cup {MissingId}, c \in Customers,
        valid \in BOOLEAN : StartFindTable(r, t, c, valid)
  \/ \E r \in StartRequests : StartCreateSession(r)
  \/ \E r \in StartRequests : StartUpdateTable(r)
  \/ \E r \in StartRequests : StartPlugOnline(r)
  \/ \E r \in StartRequests : StartRespond(r)

Spec == Init /\ [][Next]_vars

SpecOrders == Init /\ [][NextOrders]_vars

SpecLifecycle == Init /\ [][NextLifecycle]_vars

SpecBilling == Init /\ [][NextBilling]_vars

SpecDiscount == Init /\ [][NextDiscount]_vars

\* The order, KOT, user and reservation handlers modelled here never evaluate Op
InitOrders == Init /\ opDefined = FALSE

SpecKitchen == InitOrders /\ [][NextKitchen]_vars

SpecUsers == InitOrders /\ [][NextUsers]_vars

SpecReservations == InitOrders /\ [][NextReservations]_vars

SpecRace == Init /\ [][NextRace]_vars

SpecSessionRace == Init /\ [][NextSessionRace]_vars

SpecOrderCreate == InitOrders /\ [][NextOrderCreate]_vars

SpecKitchenRace == InitOrders /\ [][NextKitchenRace]_vars

SpecOrderStatus == InitOrders /\ [][NextOrderStatus]_vars

-----------------------------------------------------------------------------
(* Properties *)

Abs(x) == IF x < 0 THEN -x ELSE x

\* The session a payment or End response is about
Billed == sessions[last.id]

\* A payment that was recorded: the response is 200, or 500 after the session
\* row was already written
PaymentRecorded == last.op = "payment" /\ last.why \in {"ok", "reference_error"}

\* C1: a start request for an existing table whose status is not 'available'
\* is rejected with 400, creates no session and leaves every table as it was;
\* on an available table it creates exactly one session, with status active,
\* and sets that table to occupied with current_session_id naming the new
\* session, no other session or table changing.
C1_StartSession ==
  [][\A t \in TableIds, c \in Customers :
       StartSession(t, c, TRUE) =>
         IF tables[t].status # "available"
         THEN /\ last'.code = 400
              /\ sessions' = sessions
              /\ tables' = tables
         ELSE /\ Len(sessions') = Len(sessions) + 1
              /\ \A i \in 1..Len(sessions) : sessions'[i] = sessions[i]
              /\ sessions'[Len(sessions')].status = "active"
              /\ sessions'[Len(sessions')].table_id = t
              /\ tables'[t].status = "occupied"
              /\ tables'[t].current_session_id = Len(sessions')
              /\ \A u \in TableIds \ {t} : tables'[u] = tables[u]]_vars

\* A start was just refused on a reserved table while another table is
\* occupied by the active session an earlier start created
C1_Witness ==
  /\ last.op = "start" /\ last.code = 400 /\ last.why = "not_available"
  /\ last.pre = "reserved"
  /\ \E sid \in 1..Len(sessions) :
       /\ sessions[sid].status = "active"
       /\ sessions[sid].table_id # last.tid
       /\ tables[sessions[sid].table_id].status = "occupied"
       /\ tables[sessions[sid].table_id].current_session_id = sid

\* C2: after End was requested on an active session, the session is completed
\* and stores duration = ceil((end_time - start_time) / 1 minute),
\* session_cost = duration / 60 * hourly_rate, total_order_cost = the sum of
\* the totals of the table's orders created within [start_time, end_time],
\* subtotal = session_cost + total_order_cost, tax = 0.085 * subtotal,
\* service_fee = 0.05 * subtotal and total = subtotal + tax + service_fee.
C2_EndStoresBill ==
  (last.op = "end" /\ last.pre = "active") =>
    /\ Billed.status = "completed"
    /\ Billed.end_time # Null
    /\ Billed.duration = CeilDiv(Billed.end_time - Billed.start_time, TicksPerMinute)
    /\ 60 * Billed.session_cost = Billed.duration * Billed.hourly_rate
    /\ Billed.total_order_cost =
         SumOver({i \in 1..Len(orders) :
                    /\ orders[i].table_id = Billed.table_id
                    /\ orders[i].created_at >= Billed.start_time
                    /\ orders[i].created_at <= Billed.end_time},
                 [i \in 1..Len(orders) |-> orders[i].total])
    /\ Billed.subtotal = Billed.session_cost + Billed.total_order_cost
    /\ 1000 * Billed.tax = 85 * Billed.subtotal
    /\ 100 * Billed.service_fee = 5 * Billed.subtotal
    /\ Billed.total = Billed.subtotal + Billed.tax + Billed.service_fee

C4_ItemCompleteCascade ==
  [][\A iid \in 1..Len(orderItems) :
       CompleteItem(iid) =>
         LET oid == orderItems[iid].order_id IN
         /\ orderItems' = [orderItems EXCEPT ![iid].status = "ready"]
         /\ IF \A k \in 1..Len(orderItems) :
                 orderItems'[k].order_id = oid => orderItems'[k].status = "ready"
            THEN orders' = [orders EXCEPT ![oid].status = "ready"]
            ELSE orders' = orders]_vars

\* The last unready item of a two-item order was just completed and its
\* order, not ready before, is ready, while another order still has an
\* unready item and is not ready
C4_Witness ==
  /\ last.op = "item_complete" /\ last.code = 200
  /\ last.pre # "ready"
  /\ LET oid == orderItems[last.id].order_id IN
     /\ orders[oid].status = "ready"
     /\ Cardinality(ItemsOf(orderItems, oid)) = 2
     /\ \E o2 \in 1..Len(orders) :
          /\ o2 # oid
          /\ orders[o2].status # "ready"
          /\ \E k \in ItemsOf(orderItems, o2) : orderItems[k].status # "ready"
          /\ \E k \in ItemsOf(orderItems, o2) : orderItems[k].status = "ready"

\* C5: a valid create-order request for an existing table, one of whose lines
\* names a menu item that is missing or not available, is rejected with 400
\* and stores no order and no order item.
C5_UnavailableItemRejected ==
  [][\A t \in TableIds, items \in OrderRequests :
       (CreateOrder(t, items, TRUE)
          /\ \E k \in 1..Len(items) :
               \/ items[k].menu_item_id \notin DOMAIN MenuItems
               \/ ~MenuItems[items[k].menu_item_id].is_available) =>
         /\ last'.code = 400
         /\ orders' = orders
         /\ orderItems' = orderItems]_vars

\* An order request was just refused for an unavailable item while an
\* earlier order and its items are stored, untouched
C5_Witness ==
  /\ last.op = "create_order" /\ last.code = 400 /\ last.why = "item_unavailable"
  /\ Len(orders) = 1
  /\ Len(orderItems) = 2
  /\ \A k \in 1..Len(orderItems) : MenuItems[orderItems[k].menu_item_id].is_available

\* No two stored users share an email
UniqueEmails ==
  \A i, j \in 1..Len(users) : users[i].email = users[j].email => i = j

\* C6: no two users ever share an email, and a valid register or create-staff
\* request whose email equals that of a stored user is rejected with 400 and
\* creates no user, whatever its username.
C6_UniqueEmail ==
  /\ []UniqueEmails
  /\ [][\A u \in Usernames, e \in Emails, r \in Roles :
          ((Register(u, e, r, TRUE) \/ CreateStaff(u, e, r, TRUE))
             /\ \E i \in 1..Len(users) : users[i].email = e) =>
            /\ last'.code = 400
            /\ users' = users]_vars

\* A create-staff request carrying a stored email and a username no user has
\* was just refused
C6_Witness ==
  /\ last.op = "create_staff" /\ last.code = 400 /\ last.why = "exists"
  /\ \E i \in 1..Len(users) : users[i].email = last.email
  /\ \A i \in 1..Len(users) : users[i].username # last.username
  /\ Len(users) = 1

\* C7: after a payment was recorded on a session that was active, the session
\* holds what End would have stored at that instant: status completed and the
\* duration, session_cost, total_order_cost, subtotal, tax, service_fee and
\* total of the End computation.
C7_PaymentEndsLikeEnd ==
  (PaymentRecorded /\ last.pre = "active") =>
    LET b == EndBill(Billed, Billed.end_time) IN
    /\ Billed.status = "completed"
    /\ Billed.duration = b.duration
    /\ Billed.session_cost = b.session_cost
    /\ Billed.total_order_cost = b.total_order_cost
    /\ Billed.subtotal = b.subtotal
    /\ Billed.tax = b.tax
    /\ Billed.service_fee = b.service_fee
    /\ Billed.total = b.total

\* C8: after a payment was recorded on a session that was active or paused,
\* the session's table is available, names no current session and has no
\* customer.
C8_PaymentFreesTable ==
  (PaymentRecorded /\ last.pre \in {"active", "paused"}) =>
    /\ tables[last.tid].status = "available"
    /\ tables[last.tid].current_session_id = Null
    /\ tables[last.tid].customer_name = NullStr
    /\ tables[last.tid].customer_phone = NullStr

\* C9: a payment on an unpaid session marks paid every order of the session's
\* table created within [start_time, end_time], end_time being the one the
\* session has once the payment ended it or, failing that, the time of the
\* request, and changes no other order.
C9_PaymentMarksOrders ==
  [][\A sid \in 1..Len(sessions), m \in PaymentMethods :
       (ProcessPayment(sid, m, TRUE) /\ sessions[sid].payment_status # "paid") =>
         /\ Len(orders') = Len(orders)
         /\ \A i \in 1..Len(orders) :
              IF /\ orders[i].table_id = sessions[sid].table_id
                 /\ orders[i].created_at >= sessions[sid].start_time
                 /\ orders[i].created_at <=
                      (IF sessions'[sid].end_time # Null
                       THEN sessions'[sid].end_time ELSE now)
              THEN orders'[i] = [orders[i] EXCEPT !.payment_status = "paid"]
              ELSE orders'[i] = orders[i]]_vars

\* C10: a payment on a session already paid is rejected with 400 and changes
\* no session, table or order; and a session once paid stays paid with the
\* payment method it has.
C10_PaidOnce ==
  /\ [][\A sid \in 1..Len(sessions), m \in PaymentMethods :
          (ProcessPayment(sid, m, TRUE) /\ sessions[sid].payment_status = "paid") =>
            /\ last'.code = 400
            /\ UNCHANGED <<sessions, tables, orders>>]_vars
  /\ [][\A sid \in 1..Len(sessions) :
          sessions[sid].payment_status = "paid" =>
            /\ sessions'[sid].payment_status = "paid"
            /\ sessions'[sid].payment_method = sessions[sid].payment_method]_vars

\* A payment was just refused on a session that a cash payment ended and
\* marked paid earlier
C10_Witness ==
  /\ last.op = "payment" /\ last.code = 400 /\ last.why = "already_paid"
  /\ Billed.payment_status = "paid"
  /\ Billed.payment_method = "cash"
  /\ Billed.status = "completed"

\* C11: a discount request of either type on an existing session by a caller
\* whose bundle allows neither item nor bill discounts is answered 403 and
\* leaves every session, its discount and total included, unchanged.
C11_NoPermissionNoDiscount ==
  [][\A sid \in 1..Len(sessions), caller \in Callers, r \in DiscountRequests :
       (ApplyDiscount(sid, caller, r.type, r.value, TRUE)
          /\ ~caller.item /\ ~caller.bill) =>
         /\ last'.code = 403
         /\ sessions' = sessions]_vars

\* A discount was just refused for lack of permission on an ended session
\* with a non-zero subtotal, which still has no discount
C11_Witness ==
  /\ last.op = "discount" /\ last.code = 403 /\ last.why = "permission"
  /\ Billed.subtotal > 0
  /\ Billed.discount = 0
  /\ Billed.total = Billed.subtotal + Billed.tax + Billed.service_fee

\* C12: no discount request of either type by a caller holding the default
\* Manager bundle leaves the session with a discount above 15% of its
\* subtotal.
C12_ManagerAtMost15 ==
  [][\A sid \in 1..Len(sessions), r \in DiscountRequests :
       ApplyDiscount(sid, RegisterDiscounts("Manager"), r.type, r.value, TRUE) =>
         100 * sessions'[sid].discount <= 15 * sessions'[sid].subtotal]_vars

C14_StatusGuards ==
  [][\A sid \in 1..Len(sessions) :
       LET st == sessions[sid].status
           refused == /\ last'.code = 400
                      /\ sessions' = sessions
                      /\ tables' = tables
       IN
       /\ PauseSession(sid) =>
            IF st = "active"
            THEN /\ last'.code = 200
                 /\ sessions' = [sessions EXCEPT ![sid].status = "paused"]
                 /\ tables' = tables
            ELSE refused
       /\ ResumeSession(sid) =>
            IF st = "paused"
            THEN /\ last'.code = 200
                 /\ sessions' = [sessions EXCEPT ![sid].status = "active"]
                 /\ tables' = tables
            ELSE refused
       /\ ExtendSession(sid, 30, TRUE) =>
            IF st = "active" THEN last'.code = 200 ELSE refused
       /\ EndSession(sid) =>
            IF st = "active" THEN last'.code \in {200, 500} ELSE refused]_vars

\* An extend was just refused on a paused session that had been extended
\* while it was active
C14_Witness ==
  /\ last.op = "extend" /\ last.code = 400 /\ last.why = "not_active"
  /\ last.pre = "paused"
  /\ Billed.status = "paused"
  /\ Len(Billed.extensions) = 1

\* C19, as stated: a session's status becomes completed only through End.
C19_CompletedOnlyByEnd ==
  [][\A sid \in 1..Len(sessions) :
       (sessions[sid].status # "completed" /\ sessions'[sid].status = "completed")
         => EndSession(sid)]_vars

\* C19, amended: a session's status becomes completed only from active, and
\* only through End or through a payment on that session; start, pause,
\* resume, extend and discount never complete a session, nor does a payment
\* on a paused session.
C19_CompletedByEndOrPayment ==
  [][\A sid \in 1..Len(sessions) :
       (sessions[sid].status # "completed" /\ sessions'[sid].status = "completed")
         => /\ sessions[sid].status = "active"
            /\ \/ EndSession(sid)
               \/ \E m \in PaymentMethods : ProcessPayment(sid, m, TRUE)]_vars

\* A payment just completed a session that was active and that End never
\* touched, while a paused session paid earlier is still paused
C19_Witness ==
  /\ last.op = "payment" /\ last.pre = "active"
  /\ Billed.status = "completed"
  /\ Billed.payment_status = "paid"
  /\ \E sid \in 1..Len(sessions) :
       /\ sessions[sid].status = "paused"
       /\ sessions[sid].payment_status = "paid"

\* The amounts of an order row
Amounts(o) == <<o.subtotal, o.tax, o.discount, o.total>>

\* The sum of price * quantity over the stored items of order oid
ItemsSubtotal(oid) ==
  SumOver(ItemsOf(orderItems, oid),
          [k \in 1..Len(orderItems) |-> orderItems[k].price * orderItems[k].quantity])

\* Every stored order has total = subtotal + tax - discount, discount 0 and
\* subtotal the sum over its lines, with tax exactly 8.5% of subtotal
OrderAmountsExact ==
  \A i \in 1..Len(orders) :
    /\ orders[i].total = orders[i].subtotal + orders[i].tax - orders[i].discount
    /\ orders[i].subtotal = ItemsSubtotal(i)
    /\ orders[i].discount = 0
    /\ 1000 * orders[i].tax = 85 * orders[i].subtotal

\* The same with tax 8.5% of subtotal to the nearest hundredth
OrderAmountsRounded ==
  \A i \in 1..Len(orders) :
    /\ orders[i].total = orders[i].subtotal + orders[i].tax - orders[i].discount
    /\ orders[i].subtotal = ItemsSubtotal(i)
    /\ orders[i].discount = 0
    /\ Abs(1000 * orders[i].tax - 85 * orders[i].subtotal) <= 500

\* No step changes the amounts of a stored order
AmountsKept ==
  \A i \in 1..Len(orders) : Amounts(orders'[i]) = Amounts(orders[i])

\* C15, as stated: every stored order has total = subtotal + tax - discount
\* with subtotal the sum of price * quantity over its lines, tax 8.5% of
\* subtotal and discount 0, and no later operation changes these amounts.
C15_OrderAmountsExact == []OrderAmountsExact /\ [][AmountsKept]_vars

\* C15, amended: the same, the stored tax being 8.5% of subtotal rounded to
\* the two decimals of its column (within half a hundredth of the exact
\* value).
C15_OrderAmountsRounded == []OrderAmountsRounded /\ [][AmountsKept]_vars

\* An order whose KOT was printed and which was then cancelled, and a paid
\* order that was served, both still with the amounts of their creation, the
\* tax of one not being exactly 8.5% of its subtotal
C15_Witness ==
  /\ OrderAmountsRounded
  /\ \E i, j \in 1..Len(orders) :
       /\ orders[i].status = "cancelled" /\ orders[i].kot_printed
       /\ 1000 * orders[i].tax # 85 * orders[i].subtotal
       /\ orders[j].status = "served" /\ orders[j].payment_status = "paid"

\* C16: a valid reservation request for type T and a date and time is
\* answered 400 and creates nothing when no active table of type T is
\* available, or when the reservations for the same type, date and time in
\* status confirmed or arrived are at least as many as those available
\* tables; otherwise one reservation is created with status confirmed and
\* the first of those available tables, the earlier reservations and the
\* tables staying as they were.
C16_ReservationCreate ==
  [][\A c \in Customers, tt \in ReservationTypes, slot \in Slots :
       CreateReservation(c, tt, slot, TRUE) =>
         LET avail == {t \in TableIds :
                         /\ tables[t].type = StripType(tt)
                         /\ tables[t].is_active
                         /\ tables[t].status = "available"}
             taken == {i \in 1..Len(reservations) :
                         /\ reservations[i].table_type = tt
                         /\ reservations[i].reservation_date = slot.date
                         /\ reservations[i].reservation_time = slot.time
                         /\ reservations[i].status \in {"confirmed", "arrived"}}
         IN
         /\ tables' = tables
         /\ IF avail = {} \/ Cardinality(taken) >= Cardinality(avail)
            THEN /\ last'.code = 400
                 /\ reservations' = reservations
            ELSE /\ last'.code = 201
                 /\ Len(reservations') = Len(reservations) + 1
                 /\ \A i \in 1..Len(reservations) : reservations'[i] = reservations[i]
                 /\ reservations'[Len(reservations')].status = "confirmed"
                 /\ reservations'[Len(reservations')].table_type = tt
                 /\ reservations'[Len(reservations')].table_id \in avail
                 /\ \A u \in avail : reservations'[Len(reservations')].table_id <= u]_vars

\* A request was just refused because the one confirmed reservation for that
\* type, date and time already matches the one available table of the type,
\* while the other table of the type is occupied
C16_Witness ==
  /\ last.op = "reserve" /\ last.code = 400 /\ last.why = "no_tables_at_time"
  /\ Len(reservations) = 1
  /\ reservations[1].status = "confirmed"
  /\ reservations[1].table_id = 1
  /\ tables[1].type = "Snooker" /\ tables[2].type = "Snooker"
  /\ tables[1].status = "occupied"
  /\ tables[2].status = "available"

\* C17: a reservation status update to arrived sets the status of the
\* assigned table to reserved, one to cancelled, completed or no-show sets it
\* to available, and one to confirmed leaves the tables unchanged, whatever
\* the table's status was and nothing else of the table changing.
C17_ReservationStatusForcesTable ==
  [][\A rid \in 1..Len(reservations), st \in ReservationStatuses :
       UpdateReservationStatus(rid, st) =>
         /\ reservations' = [reservations EXCEPT ![rid].status = st]
         /\ tables' =
              IF st = "arrived"
              THEN [tables EXCEPT ![reservations[rid].table_id].status = "reserved"]
              ELSE IF st \in {"cancelled", "completed", "no-show"}
              THEN [tables EXCEPT ![reservations[rid].table_id].status = "available"]
              ELSE tables]_vars

\* A reservation was just marked no-show while its table was occupied by a
\* running session: the table is available and still points to that session
C17_Witness ==
  /\ last.op = "reservation_status" /\ last.code = 200 /\ last.why = "no-show"
  /\ last.pre = "occupied"
  /\ tables[last.tid].status = "available"
  /\ tables[last.tid].current_session_id # Null
  /\ sessions[tables[last.tid].current_session_id].status = "active"

\* The sessions of table t that are running: active or paused
RunningOn(t) ==
  {sid \in 1..Len(sessions) :
     sessions[sid].table_id = t /\ sessions[sid].status \in {"active", "paused"}}

\* C18: in every state reached by requests that do not overlap, each table
\* has at most one session whose status is active or paused.
C18_OneRunningSessionPerTable ==
  \A t \in TableIds : Cardinality(RunningOn(t)) <= 1

\* The start-session requests that were answered 201 for table t
StartedOn(t) ==
  {r \in StartRequests :
     starts[r].pc = "done" /\ starts[r].code = 201 /\ starts[r].table = t}

\* A request that has passed the availability check and is not yet answered
PastCheck(r) == starts[r].pc \in {"create", "update", "plug", "respond"}

\* Two overlapping requests answered 201 on one table leave two active
\* sessions there, and the table row names one of them
TwoActiveOneNamed ==
  \A t \in TableIds : \A r1, r2 \in StartedOn(t) :
    r1 # r2 =>
      /\ starts[r1].sid # starts[r2].sid
      /\ \A r \in {r1, r2} :
           /\ sessions[starts[r].sid].table_id = t
           /\ sessions[starts[r].sid].status = "active"
      /\ tables[t].status = "occupied"
      /\ tables[t].current_session_id \in {starts[r1].sid, starts[r2].sid}

\* Nothing detects the conflict: a request past the check is only ever
\* answered 201, and its table write lands whatever the row holds by then
NoConflictDetection ==
  \A r \in StartRequests :
    /\ (PastCheck(r) /\ starts'[r].pc = "done") => starts'[r].code = 201
    /\ (starts[r].pc = "update" /\ starts'[r].pc # "update") =>
         /\ tables'[starts[r].table].status = "occupied"
         /\ tables'[starts[r].table].current_session_id = starts[r].sid

\* C20: two overlapping start-session requests on one available table can
\* both pass the availability check; both are then answered 201, two active
\* sessions exist on the table, current_session_id names one of them, and no
\* step of either request detects the other.
C20_StartRace == []TwoActiveOneNamed /\ [][NoConflictDetection]_vars

\* Both requests were answered 201 on table 1: two active sessions, one named
C20_Witness ==
  /\ StartedOn(1) = StartRequests
  /\ Cardinality({sid \in 1..Len(sessions) :
        sessions[sid].table_id = 1 /\ sessions[sid].status = "active"}) = 2
  /\ tables[1].current_session_id \in 1..Len(sessions)

NamesRunningSession(t) ==
  LET sid == tables[t].current_session_id IN
  /\ sid \in 1..Len(sessions)
  /\ sessions[sid].table_id = t
  /\ sessions[sid].status \in {"active", "paused"}

\* C26: under non-overlapping start, pause, resume, extend, end and payment
\* requests, a table is occupied exactly when its current_session_id names a
\* session on that table whose status is active or paused, and
\* current_session_id is null for every table that is not occupied.
C26_OccupiedIffRunningSession ==
  \A t \in TableIds :
    /\ tables[t].status = "occupied" <=> NamesRunningSession(t)
    /\ tables[t].status # "occupied" => tables[t].current_session_id = Null

\* Table 1 is held by a paused session while table 2 was freed by the end of
\* its session
C26_Witness ==
  /\ tables[1].status = "occupied"
  /\ NamesRunningSession(1)
  /\ sessions[tables[1].current_session_id].status = "paused"
  /\ tables[2].status = "available"
  /\ tables[2].session_end_time # Null
  /\ \E sid \in 1..Len(sessions) :
       sessions[sid].table_id = 2 /\ sessions[sid].status = "completed"

\* The billed amounts of a session row
BilledAmounts(s) == <<s.discount, s.subtotal, s.tax, s.service_fee, s.total>>

\* C27: once a session's payment_status is paid, no later operation changes
\* its discount, subtotal, tax, service_fee or total.
C27_PaidAmountsFrozen ==
  [][\A sid \in 1..Len(sessions) :
       sessions[sid].payment_status = "paid" =>
         BilledAmounts(sessions'[sid]) = BilledAmounts(sessions[sid])]_vars

\* C28: a status update with any of the six order statuses succeeds from
\* every current status of the order, served and cancelled included, and
\* changes nothing but that order's status; the cancel route refuses a
\* served order.
C28_FreeOrderStatus ==
  [][/\ \A oid \in 1..Len(orders), st \in OrderStatuses :
          UpdateOrderStatus(oid, st) =>
            /\ last'.code = 200
            /\ orders' = [orders EXCEPT ![oid].status = st]
            /\ orderItems' = orderItems
     /\ \A oid \in 1..Len(orders) :
          (CancelOrder(oid) /\ orders[oid].status = "served") =>
            /\ last'.code = 400
            /\ orders' = orders]_vars

\* A served order whose KOT was printed was just set to cancelled by the
\* status route and kept its KOT flag
C28_Witness ==
  /\ last.op = "order_status" /\ last.code = 200
  /\ last.pre = "served"
  /\ orders[last.id].status = "cancelled"
  /\ orders[last.id].kot_printed

\* The reservations that hold a table: status confirmed or arrived
HeldReservations ==
  {i \in 1..Len(reservations) : reservations[i].status \in {"confirmed", "arrived"}}

\* C30: no two reservations in status confirmed or arrived with the same
\* table type, date and time are assigned the same table.
C30_OneReservationPerTableSlot ==
  \A i, j \in HeldReservations :
    (/\ i # j
     /\ reservations[i].table_type = reservations[j].table_type
     /\ reservations[i].reservation_date = reservations[j].reservation_date
     /\ reservations[i].reservation_time = reservations[j].reservation_time)
    => reservations[i].table_id # reservations[j].table_id

\* C21: once a session's status is completed it never changes again, under
\* any interleaving of overlapping pause, resume, extend, end and payment
\* requests.
C21_CompletedIsTerminal ==
  [][\A sid \in 1..Len(sessions) :
       sessions[sid].status = "completed" => sessions'[sid].status = "completed"]_vars

\* The extend requests on session sid that were answered 200
ExtendedOk(sid) ==
  {r \in ReqIds :
     /\ inflight[r].op = "extend" /\ inflight[r].id = sid
     /\ inflight[r].pc = "done" /\ inflight[r].code = 200}

\* C22: after any set of successful extend requests on a session, overlapping
\* ones included, the stored extension log holds exactly one entry per
\* successful request.
C22_OneEntryPerExtend ==
  \A sid \in 1..Len(sessions) :
    Len(sessions[sid].extensions) = Cardinality(ExtendedOk(sid))

\* The stored duration and session_cost of an ended session are the ones
\* computed from its start_time, end_time and hourly_rate alone
BilledByClock ==
  \A sid \in 1..Len(sessions) :
    LET s == sessions[sid] IN
    s.end_time # Null =>
      /\ s.duration = CeilDiv(s.end_time - s.start_time, TicksPerMinute)
      /\ s.session_cost = Decimal2(s.duration * s.hourly_rate, 60)

\* No request, pause and resume included, moves a session's start_time or
\* hourly_rate
ClockInputsKept ==
  \A sid \in 1..Len(sessions) :
    /\ sessions'[sid].start_time = sessions[sid].start_time
    /\ sessions'[sid].hourly_rate = sessions[sid].hourly_rate

FailedAfterRow ==
  {r \in ReqIds :
     /\ inflight[r].op = "create_order" /\ inflight[r].pc = "done"
     /\ inflight[r].code = 500 /\ inflight[r].id # Null}

\* The order of a failed request stays stored with the items written before
\* the failure and with the amounts of all requested lines
PartialOrderKept ==
  \A r \in FailedAfterRow :
    LET q == inflight[r] IN
    /\ q.id \in 1..Len(orders)
    /\ orders[q.id].subtotal = LinesSubtotal(q.snap)
    /\ orders[q.id].tax = Decimal2(LinesSubtotal(q.snap) * 85, 1000)
    /\ orders[q.id].total = Decimal2(LinesSubtotal(q.snap) * 1085, 1000)
    /\ Cardinality(ItemsOf(orderItems, q.id)) = q.k

\* No step removes an order row or an item row
NothingRemoved ==
  /\ Len(orders') >= Len(orders)
  /\ Len(orderItems') >= Len(orderItems)

\* C23: when a call fails after the order row was written and before all of
\* its items were, the order stays stored with the items written so far while
\* its subtotal, tax and total are those of all requested lines, and no later
\* step removes or completes it.
C23_PartialOrderStays == []PartialOrderKept /\ [][NothingRemoved]_vars

\* A two-line order failed after its first item: one item row is stored and
\* the subtotal is that of both lines
C23_Witness ==
  \E r \in FailedAfterRow :
    LET q == inflight[r] IN
    /\ Len(q.snap) = 2
    /\ q.k = 1
    /\ Cardinality(ItemsOf(orderItems, q.id)) = 1
    /\ orders[q.id].subtotal = LinesSubtotal(q.snap)
    /\ orders[q.id].subtotal >
         SumOver(ItemsOf(orderItems, q.id),
                 [i \in 1..Len(orderItems) |-> orderItems[i].price * orderItems[i].quantity])
    /\ orders[q.id].status = "ready"

\* The items that an answered item-complete request targeted
CompletedItems ==
  {inflight[r].id : r \in {x \in ReqIds :
     /\ inflight[x].op = "item_complete" /\ inflight[x].pc = "done"
     /\ inflight[x].code = 200}}

\* No item-complete request on an item of order oid is still under way
NoneUnderWay(oid) ==
  \A r \in ReqIds :
    (inflight[r].op = "item_complete" /\ inflight[r].pc # "done") =>
      inflight[r].snap[1].order_id # oid

\* C24: when every item of an order was targeted by an item-complete request
\* and all those requests have finished, however their calls interleaved, the
\* order's status is ready.
C24_AllCompleteMeansReady ==
  \A oid \in 1..Len(orders) :
    (ItemsOf(orderItems, oid) \subseteq CompletedItems /\ NoneUnderWay(oid)) =>
      orders[oid].status = "ready"

\* Both items of a two-item order were completed by two requests, both are
\* answered and the order is ready, while the other order is not
C24_Witness ==
  \E oid \in 1..Len(orders) :
    /\ Cardinality(ItemsOf(orderItems, oid)) = 2
    /\ ItemsOf(orderItems, oid) \subseteq CompletedItems
    /\ NoneUnderWay(oid)
    /\ orders[oid].status = "ready"
    /\ \E o2 \in 1..Len(orders) : orders[o2].status = "pending"

=============================================================================
